---- MODULE Spec2Model ----
(***************************************************************************)
(* Model of CraicOverflow89/TS-Library (src/src/lib.ts): the Array         *)
(* extensions (drop, take, partition, remove, windowed), the Number and    *)
(* String extensions (isInteger, toPaddedString, repeat), HashMap and      *)
(* StringBuffer.                                                           *)
(*                                                                         *)
(* Representation.                                                         *)
(*  - A JavaScript number argument is carried as twice its value, so that  *)
(*    the half-integers 0.5, 1.5, ... exist and the Number.isInteger       *)
(*    guards have a non-integer case: the number n is the integer 2*n.     *)
(*  - A JavaScript string is a sequence of one-character strings.          *)
(*  - A JavaScript value returned to the caller is a record [t, v] with    *)
(*    t the kind ("number", "boolean", "undefined", "function", "object",  *)
(*    "throw") and v the payload.                                          *)
(***************************************************************************)
EXTENDS Integers, Sequences, FiniteSets, TLC

VARIABLES arr, data, latest, buffer, appended, last

vars == <<arr, data, latest, buffer, appended, last>>

----------------------------------------------------------------------------
(* Bounds *)

MaxLen == 4
MaxElem == 3
MaxCount == 5
MaxValue == 1
MaxFrags == 3
MaxText == 2
MaxNumber == 120

Elems == 1..MaxElem
Arrays == UNION {[1..n -> Elems] : n \in 0..MaxLen}
\* number arguments, as twice their value: -1, -0.5, 0, 0.5, ..., MaxCount
Numbers == (-2)..(2 * MaxCount)

Min(a, b) == IF a < b THEN a ELSE b
Max(a, b) == IF a < b THEN b ELSE a

----------------------------------------------------------------------------
(* Number.isInteger: the argument is a finite number here, so the test is *)
(* Math.floor(value) === value                                            *)
isInteger(value2) == value2 % 2 = 0

(* Array.prototype.slice(begin, end) for integers 0 <= begin, 0 <= end *)
slice(S, begin, end) == SubSeq(S, Min(begin, Len(S)) + 1, Min(end, Len(S)))

drop_offByOne(S, count2) ==
    IF count2 < 2 \/ ~isInteger(count2) THEN <<>>
    ELSE slice(S, (count2 \div 2) + 1, Len(S))

drop(S, count2) ==
    IF count2 < 2 \/ ~isInteger(count2) THEN <<>>
    ELSE slice(S, count2 \div 2, Len(S))

take(S, count2) ==
    IF count2 < 2 \/ ~isInteger(count2) THEN <<>>
    ELSE slice(S, 0, count2 \div 2)

(* partition: the loop of lines 59-61; logic is the predicate "is in P";   *)
(* calls records the index x of every invocation of logic, in order        *)
RECURSIVE partitionLoop(_, _, _, _, _, _)
partitionLoop(S, P, x, first, second, calls) ==
    IF x < Len(S)
    THEN IF S[x + 1] \in P
         THEN partitionLoop(S, P, x + 1, Append(first, S[x + 1]), second, Append(calls, x))
         ELSE partitionLoop(S, P, x + 1, first, Append(second, S[x + 1]), Append(calls, x))
    ELSE [first |-> first, second |-> second, calls |-> calls]

(* a matching element is put in front of first instead of behind it *)
RECURSIVE partitionLoop_prepend(_, _, _, _, _, _)
partitionLoop_prepend(S, P, x, first, second, calls) ==
    IF x < Len(S)
    THEN IF S[x + 1] \in P
         THEN partitionLoop_prepend(S, P, x + 1, <<S[x + 1]>> \o first, second, Append(calls, x))
         ELSE partitionLoop_prepend(S, P, x + 1, first, Append(second, S[x + 1]), Append(calls, x))
    ELSE [first |-> first, second |-> second, calls |-> calls]

partition_prepend(S, P) == partitionLoop_prepend(S, P, 0, <<>>, <<>>, <<>>)

partition(S, P) == partitionLoop(S, P, 0, <<>>, <<>>, <<>>)

(* Array.prototype.indexOf: zero-based index of the first element equal to *)
(* object, -1 when there is none                                           *)
indexOf(S, object) ==
    IF \E i \in 1..Len(S) : S[i] = object
    THEN (CHOOSE i \in 1..Len(S) : S[i] = object /\ \A j \in 1..(i - 1) : S[j] # object) - 1
    ELSE -1

(* Array.prototype.splice(index, 1): the array without position index *)
splice(S, index) == SubSeq(S, 1, index) \o SubSeq(S, index + 2, Len(S))

remove_last(S, object) ==
    LET hits == {i \in 1..Len(S) : S[i] = object}
        index == IF hits = {} THEN -1 ELSE (CHOOSE i \in hits : \A j \in hits : j <= i) - 1
    IN IF index < 0 THEN [array |-> S, result |-> FALSE]
       ELSE [array |-> splice(S, index), result |-> TRUE]

(* remove: the array after the call and the returned boolean *)
remove(S, object) ==
    LET index == indexOf(S, object)
    IN IF index < 0 THEN [array |-> S, result |-> FALSE]
       ELSE [array |-> splice(S, index), result |-> TRUE]

(* windowed: the loop of lines 98-104 and the final push of line 105 *)
RECURSIVE windowedLoop(_, _, _, _, _)
windowedLoop(S, size2, x, result, window) ==
    IF x < Len(S)
    THEN IF 2 * Len(window) = size2
         THEN windowedLoop(S, size2, x + 1, Append(result, window), <<S[x + 1]>>)
         ELSE windowedLoop(S, size2, x + 1, result, Append(window, S[x + 1]))
    ELSE Append(result, window)

(* the window is tested after the push instead of before it *)
RECURSIVE windowedLoop_after(_, _, _, _, _)
windowedLoop_after(S, size2, x, result, window) ==
    IF x < Len(S)
    THEN IF 2 * (Len(window) + 1) = size2
         THEN windowedLoop_after(S, size2, x + 1, Append(result, Append(window, S[x + 1])), <<>>)
         ELSE windowedLoop_after(S, size2, x + 1, result, Append(window, S[x + 1]))
    ELSE Append(result, window)

windowed_testAfterPush(S, size2) == windowedLoop_after(S, size2, 0, <<>>, <<>>)

(* the window is not reset after it is pushed *)
RECURSIVE windowedLoop_noReset(_, _, _, _, _)
windowedLoop_noReset(S, size2, x, result, window) ==
    IF x < Len(S)
    THEN IF 2 * Len(window) = size2
         THEN windowedLoop_noReset(S, size2, x + 1, Append(result, window), Append(window, S[x + 1]))
         ELSE windowedLoop_noReset(S, size2, x + 1, result, Append(window, S[x + 1]))
    ELSE Append(result, window)

windowed_noReset(S, size2) == windowedLoop_noReset(S, size2, 0, <<>>, <<>>)

windowed(S, size2) == windowedLoop(S, size2, 0, <<>>, <<>>)

----------------------------------------------------------------------------
(* The array operations as calls on one array *)

NoCall == [op |-> "none", arg |-> 0, before |-> <<>>, result |-> <<>>]

Drop(count2) ==
    /\ last' = [op |-> "drop", arg |-> count2, before |-> arr, result |-> drop(arr, count2)]
    /\ UNCHANGED <<arr, data, latest, buffer, appended>>

Take(count2) ==
    /\ last' = [op |-> "take", arg |-> count2, before |-> arr, result |-> take(arr, count2)]
    /\ UNCHANGED <<arr, data, latest, buffer, appended>>

Partition(P) ==
    /\ last' = [op |-> "partition", arg |-> P, before |-> arr, result |-> partition(arr, P)]
    /\ UNCHANGED <<arr, data, latest, buffer, appended>>

Remove(object) ==
    /\ arr' = remove(arr, object).array
    /\ last' = [op |-> "remove", arg |-> object, before |-> arr,
                result |-> remove(arr, object).result]
    /\ UNCHANGED <<data, latest, buffer, appended>>

Windowed(size2) ==
    /\ last' = [op |-> "windowed", arg |-> size2, before |-> arr,
                result |-> windowed(arr, size2)]
    /\ UNCHANGED <<arr, data, latest, buffer, appended>>

InitSeq ==
    /\ arr \in Arrays
    /\ data = <<>>
    /\ latest = <<>>
    /\ buffer = <<>>
    /\ appended = <<>>
    /\ last = NoCall

NextSeq ==
    \/ \E count2 \in Numbers : Drop(count2)
    \/ \E count2 \in Numbers : Take(count2)
    \/ \E P \in SUBSET Elems : Partition(P)
    \/ \E object \in Elems \cup {0} : Remove(object)
    \/ \E size2 \in Numbers : Windowed(size2)

SpecSeq == InitSeq /\ [][NextSeq]_vars

----------------------------------------------------------------------------
(* HashMap: data is the object literal {} of line 439. The model keeps its  *)
(* own properties as a function from the keys that have one to the stored   *)
(* value; everything else a property read finds is inherited from           *)
(* Object.prototype.                                                        *)

Values == 0..MaxValue

\* The keys put, get, remove and containsKey are called with: a plain key,
\* two members every object inherits from Object.prototype, the member
\* "when" this library adds to Object.prototype, and the accessor __proto__.
Keys == {"a", "toString", "hasOwnProperty", "when", "__proto__"}

\* members a read of data[key] finds on Object.prototype when data has no
\* own property key ("when" is added by line 223)
InheritedMembers == {"toString", "hasOwnProperty", "when"}

Undefined == [t |-> "undefined", v |-> 0]
Number(n) == [t |-> "number", v |-> n]
Boolean(b) == [t |-> "boolean", v |-> b]
Function(name) == [t |-> "function", v |-> name]
ObjectPrototype == [t |-> "object", v |-> "Object.prototype"]
TypeError == [t |-> "throw", v |-> "TypeError"]

\* the property read this.data[key]
Read(d, key) ==
    IF key = "__proto__" THEN ObjectPrototype
    ELSE IF key \in DOMAIN d THEN Number(d[key])
    ELSE IF key \in InheritedMembers THEN Function(key)
    ELSE Undefined

\* the assignment this.data[key] = value of a primitive value: the setter
\* of __proto__ ignores a primitive, any other key gets an own property
Write(d, key, value) ==
    IF key = "__proto__" THEN d
    ELSE [k \in DOMAIN d \cup {key} |-> IF k = key THEN value ELSE d[k]]

\* delete this.data[key]
Delete(d, key) == [k \in DOMAIN d \ {key} |-> d[k]]

\* the call this.data.hasOwnProperty(key): the callee is whatever the read
\* of "hasOwnProperty" finds; calling a number throws a TypeError
hasOwnProperty(d, key) ==
    IF Read(d, "hasOwnProperty") = Function("hasOwnProperty")
    THEN Boolean(key \in DOMAIN d)
    ELSE TypeError

containsKey(d, key) == hasOwnProperty(d, key)

get(d, key) == Read(d, key)

put(d, key, value) == Write(d, key, value)

\* remove: the data after the call and what the call returns
mapRemove(d, key) ==
    LET found == hasOwnProperty(d, key)
    IN IF found = TypeError THEN [data |-> d, result |-> TypeError]
       ELSE IF ~found.v THEN [data |-> d, result |-> Boolean(FALSE)]
       ELSE [data |-> Delete(d, key), result |-> Boolean(TRUE)]

\* latest[k] is the latest call that affects key k
NoneYet == [kind |-> "none", value |-> 0]
Cleared == [kind |-> "clear", value |-> 0]
Removed == [kind |-> "remove", value |-> 0]
WasPut(value) == [kind |-> "put", value |-> value]

MapCall(op, key, value, result) ==
    [op |-> op, key |-> key, value |-> value, result |-> result]

Clear ==
    /\ data' = <<>>
    /\ latest' = [k \in Keys |-> Cleared]
    /\ last' = MapCall("clear", "", 0, Undefined)
    /\ UNCHANGED <<arr, buffer, appended>>

ContainsKey(key) ==
    /\ last' = MapCall("containsKey", key, 0, containsKey(data, key))
    /\ UNCHANGED <<arr, data, latest, buffer, appended>>

Get(key) ==
    /\ last' = MapCall("get", key, 0, get(data, key))
    /\ UNCHANGED <<arr, data, latest, buffer, appended>>

Put(key, value) ==
    /\ data' = put(data, key, value)
    /\ latest' = [latest EXCEPT ![key] = WasPut(value)]
    /\ last' = MapCall("put", key, value, Undefined)
    /\ UNCHANGED <<arr, buffer, appended>>

MapRemove(key) ==
    /\ data' = mapRemove(data, key).data
    /\ latest' = [latest EXCEPT ![key] = Removed]
    /\ last' = MapCall("remove", key, 0, mapRemove(data, key).result)
    /\ UNCHANGED <<arr, buffer, appended>>

InitMap ==
    /\ arr = <<>>
    /\ data = <<>>
    /\ latest = [k \in Keys |-> NoneYet]
    /\ buffer = <<>>
    /\ appended = <<>>
    /\ last = MapCall("none", "", 0, Undefined)

NextMap ==
    \/ Clear
    \/ \E key \in Keys : ContainsKey(key)
    \/ \E key \in Keys : Get(key)
    \/ \E key \in Keys, value \in Values : Put(key, value)
    \/ \E key \in Keys : MapRemove(key)

SpecMap == InitMap /\ [][NextMap]_vars

\* C1: for every key k, containsKey(k) is true iff the latest call affecting
\* k (put, remove or clear) was a put, and then get(k) returns the value of
\* that put, also when it is falsy; after clear containsKey is false for
\* every key.
C1_LatestPutWins ==
    /\ \A k \in Keys :
           /\ containsKey(data, k) = Boolean(latest[k].kind = "put")
           /\ latest[k].kind = "put" => get(data, k) = Number(latest[k].value)
    /\ last.op = "clear" => \A k \in Keys : containsKey(data, k) = Boolean(FALSE)

\* C2: for every key with no entry, the names of inherited members
\* included, get returns undefined and does not raise.
C2_GetAbsent ==
    (last.op = "get" /\ last.key \notin DOMAIN data) => last.result = Undefined

----------------------------------------------------------------------------
(* Strings, Number.prototype.toPaddedString, String.prototype.repeat and    *)
(* StringBuffer                                                             *)

Chars == {"a", "b"}
Texts == UNION {[1..n -> Chars] : n \in 0..MaxText}
Digits == <<"0", "1", "2", "3", "4", "5", "6", "7", "8", "9">>

\* Array(count): count holes, each of which join renders as the empty string
Array(count) == [i \in 1..count |-> <<>>]

\* Array.prototype.join(separator) on an array of strings
RECURSIVE join(_, _)
join(array, separator) ==
    IF Len(array) = 0 THEN <<>>
    ELSE IF Len(array) = 1 THEN array[1]
    ELSE array[1] \o separator \o join(Tail(array), separator)

repeat(this, count2) ==
    IF count2 < 2 \/ ~isInteger(count2) THEN <<>>
    ELSE join(Array(count2 \div 2), this)

\* Number.prototype.toString() of a non-negative integer: its decimal digits
RECURSIVE numberToString(_)
numberToString(value) ==
    IF value < 10 THEN <<Digits[value + 1]>>
    ELSE numberToString(value \div 10) \o <<Digits[(value % 10) + 1]>>

toPaddedString(this, count2) ==
    LET result == numberToString(this)
    IN repeat(<<"0">>, count2 - 2 * Len(result)) \o result

toString_separated(d) == join(d, <<"a">>)

\* StringBuffer.toString
toString(d) == join(d, <<>>)

\* StringBuffer.append: this.data.push(data)
append(d, fragment) == Append(d, fragment)

StrCall(op, this, arg, result, again) ==
    [op |-> op, this |-> this, arg |-> arg, result |-> result, again |-> again]

Repeat(text, count2) ==
    /\ last' = StrCall("repeat", text, count2, repeat(text, count2), FALSE)
    /\ UNCHANGED <<arr, data, latest, buffer, appended>>

ToPaddedString(value, count2) ==
    /\ last' = StrCall("toPaddedString", value, count2, toPaddedString(value, count2), FALSE)
    /\ UNCHANGED <<arr, data, latest, buffer, appended>>

\* appended is the concatenation of the fragments passed to append so far
StringBufferAppend(fragment) ==
    /\ Len(buffer) < MaxFrags
    /\ buffer' = append(buffer, fragment)
    /\ appended' = appended \o fragment
    /\ last' = StrCall("append", buffer, fragment, <<>>, FALSE)
    /\ UNCHANGED <<arr, data, latest>>

\* again: the call directly follows another toString call
StringBufferToString ==
    /\ last' = StrCall("toString", buffer, 0, toString(buffer), last.op = "toString")
    /\ UNCHANGED <<arr, data, latest, buffer, appended>>

InitStr ==
    /\ arr = <<>>
    /\ data = <<>>
    /\ latest = <<>>
    /\ buffer = <<>>
    /\ appended = <<>>
    /\ last = StrCall("none", <<>>, 0, <<>>, FALSE)

NextStr ==
    \/ \E text \in Texts, count2 \in Numbers : Repeat(text, count2)
    \/ \E value \in 0..MaxNumber, count2 \in Numbers : ToPaddedString(value, count2)

SpecStr == InitStr /\ [][NextStr]_vars

NextBuffer ==
    \/ \E fragment \in Texts : StringBufferAppend(fragment)
    \/ StringBufferToString

SpecBuffer == InitStr /\ [][NextBuffer]_vars

RECURSIVE Copies(_, _)
Copies(text, n) == IF n <= 0 THEN <<>> ELSE text \o Copies(text, n - 1)

\* C3: for a positive integer count, repeat(t, count) is exactly count
\* copies of t; for count zero, negative or non-integer it is the empty
\* string.
C3_RepeatExact ==
    last.op = "repeat" =>
        IF isInteger(last.arg) /\ last.arg >= 2
        THEN last.result = Copies(last.this, last.arg \div 2)
        ELSE last.result = <<>>

\* C4: for a non-negative integer value and a whole minDigits,
\* toPaddedString(value, minDigits) is the decimal representation of value
\* left-padded with '0' to the length max(minDigits, natural length).
C4_PaddedString ==
    (last.op = "toPaddedString" /\ isInteger(last.arg)) =>
        LET natural == numberToString(last.this)
            length == Max(last.arg \div 2, Len(natural))
        IN /\ Len(last.result) = length
           /\ last.result = Copies(<<"0">>, length - Len(natural)) \o natural

\* C9: toString returns the concatenation of all appended fragments in
\* append order and leaves the stored fragments unchanged; a toString call
\* that follows another one with no append in between returns the same
\* value.
C9_ToString ==
    /\ [](last.op = "toString" => last.result = appended /\ buffer = last.this)
    /\ [][(last.op = "toString" /\ last'.op = "toString") =>
              (last'.result = last.result /\ buffer' = buffer)]_vars

C9_Witness ==
    /\ last.op = "toString"
    /\ last.again
    /\ Len(buffer) = 3
    /\ buffer[1] = <<"a">>
    /\ buffer[2] = <<>>
    /\ buffer[3] = <<"b", "a">>
    /\ last.result = <<"a", "b", "a">>

----------------------------------------------------------------------------
(* Properties of the array operations *)

RECURSIVE Flatten(_)
Flatten(chunks) == IF chunks = <<>> THEN <<>> ELSE Head(chunks) \o Flatten(Tail(chunks))

\* the chunk of S at position i (from 1) when S is cut every size elements
ChunkAt(S, size, i) == SubSeq(S, (i - 1) * size + 1, Min(i * size, Len(S)))

\* last is a call of op whose argument is a whole number >= 1
WholeCall(op) == last.op = op /\ isInteger(last.arg) /\ last.arg >= 2

\* C5 as stated: when the length is a positive exact multiple of size,
\* windowed emits the full chunks followed by one trailing empty chunk; for
\* an empty input it yields exactly one empty chunk.
C5_TrailingEmptyChunk ==
    WholeCall("windowed") =>
        LET S == last.before
            size == last.arg \div 2
            n == Len(S) \div size
        IN /\ (Len(S) > 0 /\ Len(S) % size = 0) =>
                  /\ Len(last.result) = n + 1
                  /\ \A i \in 1..n : last.result[i] = ChunkAt(S, size, i)
                  /\ last.result[n + 1] = <<>>
           /\ Len(S) = 0 => last.result = << <<>> >>

\* C5 amended: when the length is a positive exact multiple of size,
\* windowed emits exactly the length/size full chunks and no trailing empty
\* chunk; for an empty input it yields exactly one empty chunk.
C5_NoTrailingChunk ==
    WholeCall("windowed") =>
        LET S == last.before
            size == last.arg \div 2
            n == Len(S) \div size
        IN /\ (Len(S) > 0 /\ Len(S) % size = 0) =>
                  /\ Len(last.result) = n
                  /\ \A i \in 1..n : last.result[i] = ChunkAt(S, size, i)
                  /\ \A i \in 1..n : Len(last.result[i]) = size
           /\ Len(S) = 0 => last.result = << <<>> >>

C5_Witness ==
    /\ WholeCall("windowed")
    /\ last.arg = 4
    /\ Len(last.before) = 4
    /\ Len(last.result) = 2

\* C6: for 1 <= k <= length(S), take(S, k) followed by drop(S, k) is S, and
\* neither call changes S.
C6_TakeDrop ==
    /\ (WholeCall("take") /\ last.arg <= 2 * Len(last.before)) =>
           /\ last.result \o drop(last.before, last.arg) = last.before
           /\ arr = last.before
    /\ (WholeCall("drop") /\ last.arg <= 2 * Len(last.before)) =>
           /\ take(last.before, last.arg) \o last.result = last.before
           /\ arr = last.before

C6_Witness ==
    /\ WholeCall("drop")
    /\ last.arg = 4
    /\ Len(last.before) = 3
    /\ Len(last.result) = 1
    /\ Len(take(last.before, last.arg)) = 2

\* C7: partition invokes the predicate exactly once per element, in order;
\* the elements satisfying it are the first array and the others the second,
\* each in their original relative order; the two lengths sum to length(S).
C7_Partition ==
    last.op = "partition" =>
        LET S == last.before
            Yes(e) == e \in last.arg
            No(e) == e \notin last.arg
        IN /\ last.result.calls = [i \in 1..Len(S) |-> i - 1]
           /\ last.result.first = SelectSeq(S, Yes)
           /\ last.result.second = SelectSeq(S, No)
           /\ Len(last.result.first) + Len(last.result.second) = Len(S)
           /\ arr = S

C7_Witness ==
    /\ last.op = "partition"
    /\ Len(last.before) = 4
    /\ Len(last.result.first) = 2
    /\ Len(last.result.second) = 2
    /\ last.result.first[1] # last.result.first[2]

\* C8: remove deletes only the first element equal to the value, keeps the
\* order of everything else and returns true; with no equal element it
\* returns false and leaves the array unchanged.
C8_Remove ==
    last.op = "remove" =>
        LET S == last.before
            hits == {i \in 1..Len(S) : S[i] = last.arg}
        IN IF hits = {}
           THEN last.result = FALSE /\ arr = S
           ELSE /\ last.result = TRUE
                /\ \E i \in hits :
                       /\ \A j \in hits : i <= j
                       /\ arr = [k \in 1..(Len(S) - 1) |-> IF k < i THEN S[k] ELSE S[k + 1]]

C8_Witness ==
    /\ last.op = "remove"
    /\ last.result = TRUE
    /\ Len(last.before) = 4
    /\ last.before[1] # last.arg
    /\ \E i \in 1..Len(arr) : arr[i] = last.arg

\* C10: for size >= 1 the chunks of windowed(S, size), concatenated in
\* order, are S; every chunk but the last has exactly size elements and the
\* last has at most size; S is not changed.
C10_Windowed ==
    WholeCall("windowed") =>
        LET size == last.arg \div 2
            n == Len(last.result)
        IN /\ n >= 1
           /\ Flatten(last.result) = last.before
           /\ \A i \in 1..(n - 1) : Len(last.result[i]) = size
           /\ Len(last.result[n]) <= size
           /\ arr = last.before

C10_Witness ==
    /\ WholeCall("windowed")
    /\ last.arg = 4
    /\ Len(last.before) = 3
    /\ Len(last.result) = 2
    /\ Len(last.result[2]) = 1

====
